---- MODULE Spec2Model ----
(***************************************************************************)
(* Synthetic transit light curve generation (src/src/GenerateModel.cpp).   *)
(*                                                                         *)
(* Real numbers are modelled in fixed point.  Lengths in stellar radii,    *)
(* intensities and limb darkening coefficients carry Scale units per 1.0,   *)
(* so that the integration step dr = 0.001 is exactly one unit; fluxes      *)
(* carry Scale^2 units per 1.0.                                            *)
(* Angles are whole degrees, times carry TicksPerDay units per day.  A     *)
(* double is either an integer (a finite value) or, where the code can     *)
(* produce them, one of the IEEE specials: see Fin, NaN, Inf.              *)
(***************************************************************************)
EXTENDS Integers, Sequences, FiniteSets

\* ------------------------------------------------------------------ bounds

\* Longest input sequence jd that is explored.
MaxLen == 2

\* ------------------------------------------------------- units and constants

\* Fixed point units per 1.0; chosen as 1/dr (const double dr = 0.001).
Scale == 1000

\* const double dr = 0.001, in fixed point.
dr == 1

\* Fixed point units per day for Julian dates.  One orbit of a one day
\* period is then 360 ticks, i.e. one tick of time is one degree of phase.
TicksPerDay == 360

\* constants.h (not part of src/): seconds per day.
secondsInDay == 86400

\* constants.h: astronomical unit, solar radius, Jupiter radius, in 10^7 m.
AU == 15050
rSun == 70
rJup == 7

\* M_PI in fixed point.
M_PI == 3142

\* ---------------------------------------------------------- IEEE doubles

Fin(v) == [cls |-> "finite", val |-> v]
NaN == [cls |-> "nan", val |-> 0]
Inf(sgn) == [cls |-> "inf", val |-> sgn]

IsFinite(x) == x.cls = "finite"

Sign(k) == IF k > 0 THEN 1 ELSE IF k < 0 THEN -1 ELSE 0

Abs(k) == IF k < 0 THEN -k ELSE k

\* C++ division of a finite value by a finite value truncates toward zero when
\* both are read as fixed point integers (TLA+ \div rounds down).
TruncDiv(n, d) == Sign(n) * Sign(d) * (Abs(n) \div Abs(d))

\* x * y for two doubles (inf * 0 is NaN).
FMul(x, y) ==
    CASE x.cls = "nan" \/ y.cls = "nan" -> NaN
      [] x.cls = "finite" /\ y.cls = "finite" -> Fin(x.val * y.val)
      [] Sign(x.val) = 0 \/ Sign(y.val) = 0 -> NaN
      [] OTHER -> Inf(Sign(x.val) * Sign(y.val))

\* x / y for two doubles: a zero divisor gives an infinity, or NaN for 0/0.
\* The sign of a zero is not modelled: a zero divisor counts as +0.
FDiv(x, y) ==
    CASE x.cls = "nan" \/ y.cls = "nan" -> NaN
      [] x.cls = "inf" /\ y.cls = "inf" -> NaN
      [] x.cls = "inf" -> Inf(IF y.val < 0 THEN -x.val ELSE x.val)
      [] y.cls = "inf" -> Fin(0)
      [] y.val = 0 -> IF x.val = 0 THEN NaN ELSE Inf(Sign(x.val))
      [] OTHER -> Fin(TruncDiv(x.val, y.val))

\* x + y for two doubles.
FAdd(x, y) ==
    CASE x.cls = "nan" \/ y.cls = "nan" -> NaN
      [] x.cls = "inf" /\ y.cls = "inf" -> IF x.val = y.val THEN x ELSE NaN
      [] x.cls = "inf" -> x
      [] y.cls = "inf" -> y
      [] OTHER -> Fin(x.val + y.val)

\* x - y for two doubles.
FSub(x, y) == FAdd(x, FMul(y, Fin(-1)))

\* ------------------------------------------------------------ <cmath>

RECURSIVE IsqrtBis(_, _, _)
IsqrtBis(n, lo, hi) ==
    IF hi - lo <= 1
    THEN lo
    ELSE LET mid == (lo + hi) \div 2
         IN  IF mid * mid <= n THEN IsqrtBis(n, mid, hi) ELSE IsqrtBis(n, lo, mid)

\* sqrt of a non-negative argument below 2^22 (largest integer whose square
\* does not exceed n).
Isqrt(n) == IsqrtBis(n, 0, 2048)

\* cos of 0..90 degrees, in fixed point.
CosTab ==
    << 1000, 1000, 999, 999, 998, 996, 995, 993, 990, 988,
       985, 982, 978, 974, 970, 966, 961, 956, 951, 946,
       940, 934, 927, 921, 914, 906, 899, 891, 883, 875,
       866, 857, 848, 839, 829, 819, 809, 799, 788, 777,
       766, 755, 743, 731, 719, 707, 695, 682, 669, 656,
       643, 629, 616, 602, 588, 574, 559, 545, 530, 515,
       500, 485, 469, 454, 438, 423, 407, 391, 375, 358,
       342, 326, 309, 292, 276, 259, 242, 225, 208, 191,
       174, 156, 139, 122, 105, 87, 70, 52, 35, 17,
       0 >>

\* cos of any whole number of degrees.
cos(deg) ==
    LET d == deg % 360
    IN  CASE d <= 90 -> CosTab[d + 1]
          [] d <= 180 -> -CosTab[180 - d + 1]
          [] d <= 270 -> -CosTab[d - 180 + 1]
          [] OTHER -> CosTab[360 - d + 1]

\* sin of any whole number of degrees.
sin(deg) == cos(deg - 90)

\* acos of x in [-1, 1], in fixed point radians, read off the cosine table
\* (acos(1) = 0, acos(0) = pi/2, acos(-1) = pi).  NaN outside [-1, 1].
acos(x) ==
    IF x < -Scale \/ x > Scale
    THEN NaN
    ELSE LET deg == IF x >= 0
                    THEN CHOOSE d \in 0..90 :
                            /\ cos(d) <= x
                            /\ \A e \in 0..(d - 1) : cos(e) > x
                    ELSE CHOOSE d \in 90..180 :
                            /\ cos(d) >= x
                            /\ \A e \in (d + 1)..180 : cos(e) < x
         IN  Fin((deg * M_PI) \div 180)

\* sqrt of a double carrying Scale^2 units per 1.0; NaN for a negative one.
sqrt(x) ==
    CASE x.cls = "nan" -> NaN
      [] x.cls = "inf" -> IF x.val > 0 THEN x ELSE NaN
      [] x.val < 0 -> NaN
      [] OTHER -> Fin(Isqrt(x.val))

\* pow(rprimed, n/4.) for n = 1..4, rprimed = 1 - r^2 carrying Scale^2 units
\* per 1.0.  A negative base with a fractional exponent is NaN.
pow(rprimed, n) ==
    IF n = 4
    THEN Fin(TruncDiv(rprimed, Scale))
    ELSE IF rprimed < 0
         THEN NaN
         ELSE LET mu == Isqrt(rprimed)
                  rootmu == Isqrt(mu * Scale)
              IN  CASE n = 1 -> Fin(rootmu)
                    [] n = 2 -> Fin(mu)
                    [] OTHER -> Fin((mu * rootmu) \div Scale)

\* ---------------------------------------------------- anonymous namespace

\* square(val), carrying Scale^2 units per 1.0.
square(val) == val * val

\* calcOmega: returnval += coeffs.at(n) / (n + 4.) for n = 0..4.
calcOmega(coeffs) ==
    LET term(n) == TruncDiv(coeffs[n], n + 4)
    IN  term(0) + term(1) + term(2) + term(3) + term(4)

\* I(r, c1, c2, c3, c4): intensity at normalised radius r.
I(r, c1, c2, c3, c4) ==
    LET rprimed == Scale * Scale - square(r)
        \* c * (1. - pow(rprimed, n/4.))
        dim(c, n) ==
            FDiv(FMul(Fin(c), FSub(Fin(Scale), pow(rprimed, n))), Fin(Scale))
    IN  FSub(FSub(FSub(FSub(Fin(Scale), dim(c1, 1)), dim(c2, 2)),
                  dim(c3, 3)), dim(c4, 4))

\* I(r, coeffs): unpacks the vector and calls the scalar overload.
IVec(r, coeffs) == I(r, coeffs[0], coeffs[1], coeffs[2], coeffs[3])

\* IntegratedI(dr, coeffs, rlow, rhigh): unpacks the vector into the arguments
\* of the scalar overload, IntegratedI(dr, c1, c2, c3, c4, rlow, rhigh).
IntegratedIVec(step, coeffs, rlow, rhigh) ==
    [dr |-> step,
     c1 |-> coeffs[0], c2 |-> coeffs[1], c3 |-> coeffs[2], c4 |-> coeffs[3],
     rlow |-> rlow, rhigh |-> rhigh]


\* Slip: the loop of IntegratedI written with r < rhigh.
IntegrateCondStrict(rad, rhigh) == rad < rhigh

\* Loop condition of the scalar IntegratedI: r <= rhigh.
IntegrateCond(rad, rhigh) == rad <= rhigh

\* Loop body of the scalar IntegratedI: I(r, c1, c2, c3, c4) * dr * 2. * r,
\* carrying Scale^3 units per 1.0.
IntegrateTerm(f, rad) ==
    FMul(I(rad, f.c1, f.c2, f.c3, f.c4), Fin(f.dr * 2 * rad))


\* Slip: sum keeps its storage across calls (static double sum).
SumKept(prev) == prev

\* double sum = 0 at the head of the scalar IntegratedI; prev is what the
\* storage held before.
SumInit(prev) == Fin(0)

\* Number of iterations of the loop of the scalar IntegratedI: the r = rlow,
\* rlow + dr, ... that satisfy r <= rhigh.
Iterations(f) == IF f.rlow > f.rhigh THEN 0 ELSE (f.rhigh - f.rlow) \div f.dr + 1

\* The terms of iterations k0..k1 of that loop, added up (by halves, to keep
\* the evaluation shallow).
RECURSIVE TermsOf(_, _, _)
TermsOf(f, k0, k1) ==
    IF k0 > k1
    THEN Fin(0)
    ELSE IF k0 = k1
         THEN IntegrateTerm(f, f.rlow + k0 * f.dr)
         ELSE LET mid == (k0 + k1) \div 2
              IN  FAdd(TermsOf(f, k0, mid), TermsOf(f, mid + 1, k1))

\* The scalar IntegratedI as a function of its arguments: the value it
\* returns when it runs from a fresh sum.
IntegratedI(f) == TermsOf(f, 0, Iterations(f) - 1)

\* ------------------------------------------------------ GenerateSynthetic

\* Package the coefficients into a vector.
Coeffs(mod) ==
    [n \in 0..4 |->
        CASE n = 1 -> mod.c1
          [] n = 2 -> mod.c2
          [] n = 3 -> mod.c3
          [] n = 4 -> mod.c4
          [] OTHER -> Scale - mod.c1 - mod.c2 - mod.c3 - mod.c4]

normalisedDistance(mod) == TruncDiv(mod.a * AU, mod.rs * rSun)

omega(mod) == calcOmega(Coeffs(mod))

\* cos(m.i * radiansInDegree); m.i is in whole degrees.
cosi(mod) == cos(mod.i)

p(mod) == TruncDiv(mod.rp * rJup, mod.rs * rSun)

\* Seconds since epoch, carrying TicksPerDay units per second.
SecondsSinceEpoch(jdk, mod) == (jdk - mod.epoch) * secondsInDay

\* t / (m.period * secondsInDay): orbits since epoch carrying TicksPerDay = 360
\* units per orbit, which is also angFreq * t in degrees.
Orbits(tt, mod) == TruncDiv(tt, mod.period * secondsInDay)

\* Projected separation z at t.
Separation(tt, mod) ==
    LET ang == Orbits(tt, mod)
        firstTerm == square(sin(ang))
        secondTerm == square(TruncDiv(cosi(mod) * cos(ang), Scale))
    IN  TruncDiv(normalisedDistance(mod) * Isqrt(firstTerm + secondTerm), Scale)

\* modf(x, &intpart): the fractional part, with the sign of x.
modf(x) == x - TicksPerDay * TruncDiv(x, TicksPerDay)


\* Slip: the fabs around modf left out.
FabsDropped(x) == x

fabs(x) == Abs(x)


\* Slip: the fold of phases above 0.5 left out.
FoldedPhaseUnwrapped(tt, mod) == fabs(modf(Orbits(tt, mod)))

\* phase = fabs(modf(t / (m.period * secondsInDay), &intpart));
\* phase = phase > 0.5 ? phase - 1.0 : phase;  (degrees)
FoldedPhase(tt, mod) ==
    LET ph == fabs(modf(Orbits(tt, mod)))
    IN  IF 2 * ph > TicksPerDay THEN ph - TicksPerDay ELSE ph

\* (phase > -0.25) && (phase < 0.25)
InGate(ph) == (4 * ph > -TicksPerDay) /\ (4 * ph < TicksPerDay)


\* Slip: the comparison of the full overlap test turned around.
FullOverlapFlipped(zz, pp) == zz >= Scale - pp

\* z <= 1 - p
FullOverlap(zz, pp) == zz <= Scale - pp

\* z > 1 + p
NoOverlapCond(zz, pp) == zz > Scale + pp

\* The flux 1.0: fluxes carry Scale^2 units per 1.0.
FluxOne == Scale * Scale


\* Slip: the loop stops one element early, i < jd.size() - 1.
LoopCondShort(idx, size) == idx < size - 1

\* i < jd.size()
LoopCond(idx, size) == idx < size

\* Full overlap branch after the integration: norm = 1. / (4. * z * p);
\* integral *= norm; F = 1. - (square(p) * integral / 4. / omega).
FullOverlapFlux(zz, pp, om, integral) ==
    LET normed == FDiv(integral, Fin(4 * zz * pp))
    IN  FSub(Fin(FluxOne),
             FDiv(FDiv(FMul(Fin(square(pp)), normed), Fin(4)), Fin(om)))

\* Partial overlap branch after the integration.
PartialOverlapFlux(zz, pp, om, integral) ==
    LET startPoint == zz - pp
        a == square(startPoint)
        normed == FDiv(integral, Fin(Scale * Scale - a))
        insideSqrt == square(pp) - square(zz - Scale)
        sqrtVal == FMul(sqrt(Fin(insideSqrt)), Fin(zz - Scale))
        insideAcos == FDiv(Fin((zz - Scale) * Scale), Fin(pp))
        acosVal == IF IsFinite(insideAcos) THEN acos(insideAcos.val) ELSE NaN
        firstTerm == FDiv(FMul(Fin(square(pp)), acosVal), Fin(Scale))
        geom == FAdd(firstTerm, FMul(sqrtVal, Fin(-1)))
    IN  FSub(Fin(FluxOne),
             FDiv(FMul(normed, geom), Fin((4 * M_PI * om) \div Scale)))

\* The loop body as a function of one timestamp and the model: the F that
\* an execution of the body pushes when nothing but jd.at(i) and m enters it.
FluxAt(jdk, mod) ==
    LET tt == SecondsSinceEpoch(jdk, mod)
        zz == Separation(tt, mod)
        ph == FoldedPhase(tt, mod)
        pp == p(mod)
    IN  CASE ~InGate(ph) -> Fin(FluxOne)
          [] FullOverlap(zz, pp) ->
                FullOverlapFlux(zz, pp, omega(mod),
                    IntegratedI(IntegratedIVec(dr, Coeffs(mod), zz - pp, zz + pp)))
          [] NoOverlapCond(zz, pp) -> Fin(FluxOne)
          [] OTHER ->
                PartialOverlapFlux(zz, pp, omega(mod),
                    IntegratedI(IntegratedIVec(dr, Coeffs(mod), zz - pp, Scale)))

\* ------------------------------------------------------------------ inputs

\* A Model record (Model.h) of a star of one solar radius with its epoch at
\* tick 400.
Planet(a, rp, incl, period, c1, c2, c3, c4) ==
    [a |-> a, rs |-> 1, rp |-> rp, period |-> period, epoch |-> 400,
     i |-> incl, c1 |-> c1, c2 |-> c2, c3 |-> c3, c4 |-> c4]

\* Explored models: a is in 1/1000 AU, rp in 1/1000 Jupiter radii, i in degrees,
\* period in days.
Models ==
    { \* central transit of a uniform disk, p = 0.1
      Planet(10, 1000, 90, 1, 0, 0, 0, 0),
      \* central transit of a limb darkened disk, p = 0.075
      Planet(10, 750, 90, 1, 200, 300, 100, 200),
      \* inclined orbit with a two day period, p = 0.03
      Planet(10, 300, 70, 2, 500, 0, 100, 0),
      \* orbit grazing the stellar surface, slightly inclined, p = 0.03
      Planet(5, 300, 89, 1, 0, 400, 0, 0) }

\* Explored observation times, in ticks: the epoch of the models and times
\* before and after it.
Times == { 400 + d : d \in {-300, -30, 0, 30, 180, 300} }

RECURSIVE SeqsUpTo(_, _)
SeqsUpTo(S, n) ==
    IF n = 0
    THEN { << >> }
    ELSE LET shorter == SeqsUpTo(S, n - 1)
         IN  shorter \cup { Append(q, x) : q \in shorter, x \in S }

\* --------------------------------------------------------------- the state

VARIABLES
    jd,       \* input timestamps
    m,        \* input model
    i,        \* loop index of GenerateSynthetic
    Flux,     \* output vector
    pc,       \* "loop" | "full" | "partial" (inside IntegratedI, by call site)
              \* | "done" | "direct" | "returned" (IntegratedI called on its own)
    t, z, phase,  \* locals of the loop body
    frame,    \* arguments of the running scalar IntegratedI
    r, sum,   \* its locals
    evals,    \* history: radii at which it has called I so far, in order
    pushed    \* history: the loop index of each push_back, in order

vars == <<jd, m, i, Flux, pc, t, z, phase, frame, r, sum, evals, pushed>>

NoFrame == [dr |-> 0, c1 |-> 0, c2 |-> 0, c3 |-> 0, c4 |-> 0, rlow |-> 0, rhigh |-> 0]

Init ==
    /\ m \in Models
    /\ jd \in SeqsUpTo(Times, MaxLen)
    /\ i = 0
    /\ Flux = << >>
    /\ pc = "loop"
    /\ t = 0 /\ z = 0 /\ phase = 0
    /\ frame = NoFrame
    /\ r = 0
    /\ sum = Fin(0)
    /\ evals = << >>
    /\ pushed = << >>

\* The head of the loop body: t, z and phase of jd.at(i).
Locals ==
    /\ t' = SecondsSinceEpoch(jd[i + 1], m)
    /\ z' = Separation(t', m)
    /\ phase' = FoldedPhase(t', m)

\* Flux.push_back(F) and ++i.
Push(F) ==
    /\ Flux' = Append(Flux, F)
    /\ pushed' = Append(pushed, i)
    /\ i' = i + 1

\* Outside the phase gate: F = 1.
OutOfTransit ==
    /\ pc = "loop" /\ LoopCond(i, Len(jd))
    /\ Locals
    /\ ~InGate(phase')
    /\ Push(Fin(FluxOne))
    /\ UNCHANGED <<jd, m, pc, frame, r, sum, evals>>

\* Inside the gate, z > 1 + p: F = 1.
NoOverlap ==
    /\ pc = "loop" /\ LoopCond(i, Len(jd))
    /\ Locals
    /\ InGate(phase')
    /\ ~FullOverlap(z', p(m))
    /\ NoOverlapCond(z', p(m))
    /\ Push(Fin(FluxOne))
    /\ UNCHANGED <<jd, m, pc, frame, r, sum, evals>>

\* Entry of IntegratedI: sum = 0, r = rlow.
Enter(f) ==
    /\ frame' = f
    /\ r' = f.rlow
    /\ sum' = SumInit(sum)
    /\ evals' = << >>

\* Inside the gate, z <= 1 - p: IntegratedI(dr, coeffs, z-p, z+p) is called.
FullOverlapCall ==
    /\ pc = "loop" /\ LoopCond(i, Len(jd))
    /\ Locals
    /\ InGate(phase')
    /\ FullOverlap(z', p(m))
    /\ Enter(IntegratedIVec(dr, Coeffs(m), z' - p(m), z' + p(m)))
    /\ pc' = "full"
    /\ UNCHANGED <<jd, m, i, Flux, pushed>>

\* Inside the gate, 1 - p < z <= 1 + p: IntegratedI(dr, coeffs, startPoint, 1.)
\* is called.
PartialOverlapCall ==
    /\ pc = "loop" /\ LoopCond(i, Len(jd))
    /\ Locals
    /\ InGate(phase')
    /\ ~FullOverlap(z', p(m))
    /\ ~NoOverlapCond(z', p(m))
    /\ Enter(IntegratedIVec(dr, Coeffs(m), z' - p(m), Scale))
    /\ pc' = "partial"
    /\ UNCHANGED <<jd, m, i, Flux, pushed>>

\* One iteration of the loop of IntegratedI.
IntegrateStep ==
    /\ pc \in {"full", "partial", "direct"}
    /\ IntegrateCond(r, frame.rhigh)
    /\ sum' = FAdd(sum, IntegrateTerm(frame, r))
    /\ evals' = Append(evals, r)
    /\ r' = r + frame.dr
    /\ UNCHANGED <<jd, m, i, Flux, pushed, pc, t, z, phase, frame>>

\* IntegratedI returns into the full overlap branch.
FullOverlapReturn ==
    /\ pc = "full"
    /\ ~IntegrateCond(r, frame.rhigh)
    /\ Push(FullOverlapFlux(z, p(m), omega(m), sum))
    /\ pc' = "loop"
    /\ UNCHANGED <<jd, m, t, z, phase, frame, r, sum, evals>>

\* IntegratedI returns into the partial overlap branch.
PartialOverlapReturn ==
    /\ pc = "partial"
    /\ ~IntegrateCond(r, frame.rhigh)
    /\ Push(PartialOverlapFlux(z, p(m), omega(m), sum))
    /\ pc' = "loop"
    /\ UNCHANGED <<jd, m, t, z, phase, frame, r, sum, evals>>

\* return Flux.
Return ==
    /\ pc = "loop" /\ ~LoopCond(i, Len(jd))
    /\ pc' = "done"
    /\ UNCHANGED <<jd, m, i, Flux, pushed, t, z, phase, frame, r, sum, evals>>

Next ==
    \/ OutOfTransit
    \/ NoOverlap
    \/ FullOverlapCall
    \/ PartialOverlapCall
    \/ IntegrateStep
    \/ FullOverlapReturn
    \/ PartialOverlapReturn
    \/ Return

Spec == Init /\ [][Next]_vars

\* ------------------------------------------- IntegratedI called on its own

\* Explored integration bounds <<rlow, rhigh>>: inside [0, 1], below 0,
\* across 1, and with rlow > rhigh.
Bounds ==
    { <<0, 3>>, <<0, 20>>, <<-5, 3>>, <<-5, -6>>, <<975, 1000>>,
      <<990, 1004>>, <<1002, 1000>>, <<1002, 1004>>, <<500, 500>> }

\* Explored arguments of the scalar IntegratedI.
Frames ==
    { [dr |-> step, c1 |-> c[1], c2 |-> c[2], c3 |-> c[3], c4 |-> c[4],
       rlow |-> b[1], rhigh |-> b[2]] :
        step \in {1, 3, 7},
        c \in { <<0, 0, 0, 0>>, <<200, 300, 100, 200>> },
        b \in Bounds }

InitInt ==
    /\ frame \in Frames
    /\ r = frame.rlow
    /\ sum = SumInit(Fin(0))
    /\ evals = << >>
    /\ pc = "direct"
    /\ m = Planet(10, 1000, 90, 1, frame.c1, frame.c2, frame.c3, frame.c4)
    /\ jd = << >>
    /\ i = 0
    /\ Flux = << >>
    /\ pushed = << >>
    /\ t = 0 /\ z = 0 /\ phase = 0

\* return sum.
DirectReturn ==
    /\ pc = "direct"
    /\ ~IntegrateCond(r, frame.rhigh)
    /\ pc' = "returned"
    /\ UNCHANGED <<jd, m, i, Flux, pushed, t, z, phase, frame, r, sum, evals>>

NextInt ==
    \/ IntegrateStep
    \/ DirectReturn

SpecInt == InitInt /\ [][NextInt]_vars

\* ------------------------------------------------------------------ claims

\* jd.at(k) - m.epoch of the k-th timestamp (k = 1..), in ticks.
Offset(k) == jd[k] - m.epoch

\* The locals the loop body computes for the k-th timestamp.
TOf(k) == SecondsSinceEpoch(jd[k], m)
ZOf(k) == Separation(TOf(k), m)
GateOf(k) == InGate(FoldedPhase(TOf(k), m))

Regime(zz, pp) ==
    IF FullOverlap(zz, pp) THEN "full"
    ELSE IF NoOverlapCond(zz, pp) THEN "none" ELSE "partial"

\* C1: the output has the length of the input, with one push per loop
\* iteration in input order, and output[k] is the flux of jd[k].
C1_SequenceAlignment ==
    /\ Len(Flux) = i
    /\ i <= Len(jd)
    /\ pushed = [k \in 1..i |-> k - 1]
    /\ (pc = "loop" /\ i > 0) => t = SecondsSinceEpoch(jd[i], m)
    /\ pc = "done" =>
        /\ Len(Flux) = Len(jd)
        /\ \A k \in 1..Len(jd) : Flux[k] = FluxAt(jd[k], m)

\* C1 witness: a call with two timestamps of different flux has returned.
C1_Witness ==
    /\ pc = "done"
    /\ Len(jd) >= 2
    /\ Len(Flux) = Len(jd)
    /\ Flux[1] # Flux[2]

\* The orbital phase of the k-th timestamp folded into (-0.5, 0.5], computed
\* exactly on the ticks, lies outside the open interval (-0.25, 0.25).
TrueOutOfGate(k) ==
    LET orbit == TicksPerDay * m.period
        y == Offset(k) % orbit
        folded == IF 2 * y > orbit THEN y - orbit ELSE y
    IN  4 * Abs(folded) >= orbit

\* C2: a timestamp whose folded phase is outside (-0.25, 0.25) gets F = 1
\* exactly, before or after the epoch, and the code's folding classifies
\* exactly those timestamps as outside the gate.
C2_OutOfTransitConstancy ==
    \A k \in 1..Len(Flux) :
        /\ TrueOutOfGate(k) => Flux[k] = Fin(FluxOne)
        /\ TrueOutOfGate(k) <=> ~GateOf(k)

\* C2 witness: one timestamp before and one after the epoch, both outside the
\* gate, both with F = 1.
C2_Witness ==
    \E j, k \in 1..Len(Flux) :
        /\ Offset(j) < 0 /\ TrueOutOfGate(j) /\ Flux[j] = Fin(FluxOne)
        /\ Offset(k) > 0 /\ TrueOutOfGate(k) /\ Flux[k] = Fin(FluxOne)

\* C3: a timestamp with z > 1 + p gets F = 1 exactly, whether or not the
\* phase gate is open, and never enters a computing branch.
C3_NoOverlapConstancy ==
    /\ \A k \in 1..Len(Flux) : ZOf(k) > Scale + p(m) => Flux[k] = Fin(FluxOne)
    /\ pc \in {"full", "partial"} => ~(z > Scale + p(m))

\* C3 witness: inside the gate, a timestamp with z > 1 + p has F = 1 next to
\* one that overlaps and has F < 1.
C3_Witness ==
    \E j, k \in 1..Len(Flux) :
        /\ GateOf(j) /\ ZOf(j) > Scale + p(m) /\ Flux[j] = Fin(FluxOne)
        /\ GateOf(k) /\ ZOf(k) <= Scale + p(m) /\ Flux[k] # Fin(FluxOne)

\* C4: the Integrator reads the coefficients with the index meaning of the
\* packed vector (its c_n is the model's c_n), and with c1 = c2 = c3 = c4 = 0
\* the intensity it evaluates is 1.
C4_CoefficientConsistency ==
    pc \in {"full", "partial"} =>
        /\ frame.c1 = m.c1 /\ frame.c2 = m.c2
        /\ frame.c3 = m.c3 /\ frame.c4 = m.c4
        /\ (m.c1 = 0 /\ m.c2 = 0 /\ m.c3 = 0 /\ m.c4 = 0 /\ evals # << >>) =>
                I(evals[Len(evals)], frame.c1, frame.c2, frame.c3, frame.c4)
                    = Fin(Scale)

\* C5: at every call of IntegratedI made by GenerateSynthetic,
\* 0 <= rlow <= rhigh <= 1.
C5_IntegratorPrecondition ==
    pc \in {"full", "partial"} =>
        /\ 0 <= frame.rlow
        /\ frame.rlow <= frame.rhigh
        /\ frame.rhigh <= Scale

\* C6: timestamps at epoch - dt and epoch + dt get the same gate outcome, the
\* same z, the same regime and the same flux.
C6_Symmetry ==
    \A j, k \in 1..Len(Flux) :
        Offset(j) = -Offset(k) =>
            /\ GateOf(j) = GateOf(k)
            /\ ZOf(j) = ZOf(k)
            /\ Regime(ZOf(j), p(m)) = Regime(ZOf(k), p(m))
            /\ Flux[j] = Flux[k]

\* C6 witness: two timestamps at opposite non-zero offsets, in transit, with
\* the same finite flux below 1.
C6_Witness ==
    \E j, k \in 1..Len(Flux) :
        /\ Offset(j) = -Offset(k) /\ Offset(j) < 0
        /\ GateOf(j) /\ Regime(ZOf(j), p(m)) # "none"
        /\ IsFinite(Flux[j]) /\ Flux[j] = Flux[k] /\ Flux[j].val < FluxOne

\* C7: for a uniform disk, a timestamp with z = 0 in the full overlap regime
\* gets a finite flux within 0.002 of 1 - p^2.
C7_UniformDiskDepth ==
    \A k \in 1..Len(Flux) :
        ( /\ m.c1 = 0 /\ m.c2 = 0 /\ m.c3 = 0 /\ m.c4 = 0
          /\ GateOf(k) /\ ZOf(k) = 0 /\ FullOverlap(ZOf(k), p(m)) ) =>
            /\ IsFinite(Flux[k])
            /\ Abs(Flux[k].val - (FluxOne - square(p(m)))) <= 2 * Scale

\* C8: the flux pushed for a timestamp is a function of that timestamp and the
\* model alone, whatever was processed before it.
C8_PointwiseIndependence ==
    (pc = "loop" /\ i > 0) => Flux[i] = FluxAt(jd[i], m)

\* C8 witness: two different timestamps that both went through the
\* Integrator with a non-zero sum have been pushed.
C8_Witness ==
    /\ pc = "loop" /\ i = 2
    /\ jd[1] # jd[2]
    /\ GateOf(1) /\ Regime(ZOf(1), p(m)) # "none" /\ ZOf(1) > p(m)
    /\ GateOf(2) /\ Regime(ZOf(2), p(m)) # "none"
    /\ IsFinite(Flux[1]) /\ IsFinite(Flux[2]) /\ Flux[1] # Flux[2]

\* The radii r = rlow + k * dr, k = 0, 1, ..., that satisfy r <= rhigh.
SamplePoints(f) ==
    { f.rlow + k * f.dr : k \in { j \in 0..(f.rhigh - f.rlow) : f.rlow + j * f.dr <= f.rhigh } }

C10_NoZeroDivisor ==
    /\ pc = "full" => (4 * z * p(m) # 0 /\ omega(m) # 0)
    /\ pc = "partial" =>
        /\ Scale * Scale - square(z - p(m)) # 0
        /\ p(m) # 0
        /\ omega(m) # 0

====
